---- MODULE Spec2Model ----
(***************************************************************************)
(* Model of thermal-cat's capture pipeline (src/src/thermal_capturer.rs):  *)
(* the owner of a ThermalCapturer and the worker thread that start()       *)
(* spawns, talking over two unbounded std::sync::mpsc channels.            *)
(*                                                                         *)
(* Temperatures are integers in hundredths of a kelvin (the code stores    *)
(* f32 kelvin).  The time-derived fields real_fps and reported_fps of a    *)
(* result are not modelled.  An image is kept as the gradient and range    *)
(* it was rendered with.  Fields marked "history" below are not program    *)
(* state: they record what the claims speak about.                         *)
(***************************************************************************)
EXTENDS Integers, Sequences, FiniteSets, TLC

\* ---- bounds of the model ------------------------------------------------
\* at most this many frames are captured
MaxFrames == 2
\* at most this many set_settings calls are made
MaxCmds == 2
\* the kelvin inputs of the unit conversions lie below 2^MaxBinade ...
MaxBinade == 12
\* ... with this many significands in each binade [2^(b-1), 2^b)
MantSamples == 8
\* the ranges joined have their ends among 0, 10, .., 10 * MaxStep degrees Celsius
MaxStep == 3

\* ---- program constants --------------------------------------------------
\* bucket count handed to ThermalDataHistogram::from_thermal_data
HistBuckets == 100
\* 273.15 K in hundredths of a kelvin
KelvinOffset == 27315
\* significand width of f32, the type of every temperature value
MantBits == 24

\* ---- temperatures and ranges --------------------------------------------
\* TemperatureUnit::to_kelvin for Celsius, on whole degrees
CelsiusToKelvin(c) == c * 100 + KelvinOffset

\* TempRange::new(low, high)
TempRange(low, high) == [low |-> low, high |-> high]

Min2(a, b) == IF a <= b THEN a ELSE b
Max2(a, b) == IF a >= b THEN a ELSE b

\* a join that keeps the low end of its receiver
Join_KeepLow(a, b) == TempRange(a.low, Max2(a.high, b.high))

\* TempRange::join: the smallest range containing both
Join(a, b) == TempRange(Min2(a.low, b.low), Max2(a.high, b.high))

\* whether range a contains temperature t / range b
InRange(a, t) == a.low <= t /\ t <= a.high
Covers(a, b) == a.low <= b.low /\ b.high <= a.high

\* ---- f32 arithmetic --------------------------------------------------------
\* An f32 is kept exactly: (-1)^s * m * 2^e with m = 0 or 2^23 <= m < 2^24.
\* Every operation rounds its exact result to nearest, ties to even, as the
\* hardware does.  Infinities, NaN and subnormals are outside the inputs.
RECURSIVE Pow2(_)
Pow2(n) == IF n = 0 THEN 1 ELSE 2 * Pow2(n - 1)

RECURSIVE BitLen(_)
BitLen(n) == IF n = 0 THEN 0 ELSE 1 + BitLen(n \div 2)

F32(s, m, e) == [s |-> s, m |-> m, e |-> e]
FZero == [s |-> 0, m |-> 0, e |-> 0]

\* (-1)^s * M * 2^E rounded to 24 bits; an inexact M carries a sticky lowest
\* bit and at least two bits below the rounding position
RoundF32(s, M, E) ==
    IF M = 0 THEN FZero
    ELSE LET n == BitLen(M)
         IN  IF n <= MantBits
             THEN F32(s, M * Pow2(MantBits - n), E - (MantBits - n))
             ELSE LET sh   == n - MantBits
                      q    == M \div Pow2(sh)
                      r    == M % Pow2(sh)
                      half == Pow2(sh - 1)
                      q2   == IF r > half \/ (r = half /\ q % 2 = 1)
                              THEN q + 1 ELSE q
                  IN  IF q2 = Pow2(MantBits)
                      THEN F32(s, Pow2(MantBits - 1), E + sh + 1)
                      ELSE F32(s, q2, E + sh)

\* a non-negative integer literal as f32
FromInt(n) == RoundF32(0, n, 0)

FNeg(x) == IF x.m = 0 THEN x ELSE [x EXCEPT !.s = 1 - x.s]

\* M shifted right by d bits, the bits shifted out or-ed into the lowest bit
ShiftRightSticky(M, d) ==
    IF d > 30 THEN (IF M = 0 THEN 0 ELSE 1)
    ELSE LET q == M \div Pow2(d)
         IN  IF M % Pow2(d) # 0 /\ q % 2 = 0 THEN q + 1 ELSE q

\* x + y
FAdd(x, y) ==
    IF x.m = 0 THEN y
    ELSE IF y.m = 0 THEN x
    ELSE LET big   == IF x.e >= y.e THEN x ELSE y
             small == IF x.e >= y.e THEN y ELSE x
             B     == big.m * 8
             S     == ShiftRightSticky(small.m * 8, big.e - small.e)
         IN  IF big.s = small.s
             THEN RoundF32(big.s, B + S, big.e - 3)
             ELSE IF B >= S
                  THEN RoundF32(big.s, B - S, big.e - 3)
                  ELSE RoundF32(small.s, S - B, big.e - 3)

\* x - y
FSub(x, y) == FAdd(x, FNeg(y))

\* x * y: the 48-bit product of the mantissas in two 24-bit halves
FMul(x, y) ==
    IF x.m = 0 \/ y.m = 0 THEN FZero
    ELSE LET h   == Pow2(12)
             a   == x.m \div h
             b   == x.m % h
             c   == y.m \div h
             d   == y.m % h
             mid == a * d + b * c
             los == b * d + (mid % h) * h
             lo  == los % Pow2(24)
             hi  == a * c + mid \div h + los \div Pow2(24)
             top == hi * 16 + lo \div Pow2(20)
             st  == IF lo % Pow2(20) # 0 THEN 1 ELSE 0
         IN  RoundF32((x.s + y.s) % 2, 2 * top + st, x.e + y.e + 19)

\* the quotient and remainder of n * 2^bits by d, for n < 2 * d
RECURSIVE LongDiv(_, _, _, _)
LongDiv(q, r, d, bits) ==
    IF bits = 0 THEN [q |-> q, r |-> r]
    ELSE IF 2 * r >= d
         THEN LongDiv(2 * q + 1, 2 * r - d, d, bits - 1)
         ELSE LongDiv(2 * q, 2 * r, d, bits - 1)

\* x / y, y not zero
FDiv(x, y) ==
    IF x.m = 0 THEN FZero
    ELSE LET qr == LongDiv(x.m \div y.m, x.m % y.m, y.m, 27)
             st == IF qr.r # 0 THEN 1 ELSE 0
         IN  RoundF32((x.s + y.s) % 2, 2 * qr.q + st, x.e - y.e - 28)

\* whether |x - y| <= 1/10000, decided exactly; x and y within 2^6 of each
\* other in exponent, or one of them zero
WithinTolerance(x, y) ==
    LET lowe == IF x.m = 0 THEN y.e ELSE IF y.m = 0 THEN x.e
                ELSE IF x.e <= y.e THEN x.e ELSE y.e
        ax   == IF x.m = 0 THEN 0 ELSE x.m * Pow2(x.e - lowe)
        ay   == IF y.m = 0 THEN 0 ELSE y.m * Pow2(y.e - lowe)
        sx   == IF x.s = 1 THEN 0 - ax ELSE ax
        sy   == IF y.s = 1 THEN 0 - ay ELSE ay
        D    == IF sx >= sy THEN sx - sy ELSE sy - sx
        n    == BitLen(D)
    IN  IF D = 0 THEN TRUE
        ELSE IF n + lowe <= -14 THEN TRUE            \* below 2^-14 < 1/10000
        ELSE IF n + lowe >= -12 THEN FALSE           \* at least 2^-13 > 1/10000
        ELSE \* 2^-14 <= D * 2^lowe < 2^-13: D * 625 <= 2^(n + 9)
             IF n <= 17
             THEN D * 625 <= Pow2(n + 9)
             ELSE LET Dh == D \div Pow2(n - 17)
                      Dl == D % Pow2(n - 17)
                      G  == Pow2(26) - Dh * 625
                  IN  G > 0 /\ (G >= 625 \/ Dl * 625 <= G * Pow2(n - 17))

\* ---- TemperatureUnit ---------------------------------------------------------
Units == {"Kelvin", "Celsius", "Fahrenheit"}

\* the literals 273.15, 1.8 and 32.0 as f32
Lit273_15 == FDiv(FromInt(KelvinOffset), FromInt(100))
Lit1_8 == FDiv(FromInt(18), FromInt(10))
Lit32 == FromInt(32)

\* TemperatureUnit::from_kelvin
from_kelvin(u, kelvin) ==
    CASE u = "Kelvin"     -> kelvin
      [] u = "Celsius"    -> FSub(kelvin, Lit273_15)
      [] u = "Fahrenheit" -> FAdd(FMul(FSub(kelvin, Lit273_15), Lit1_8), Lit32)

\* to_kelvin with the Fahrenheit scale factor applied the wrong way round
to_kelvin_Multiply(u, value) ==
    CASE u = "Kelvin"     -> value
      [] u = "Celsius"    -> FAdd(value, Lit273_15)
      [] u = "Fahrenheit" -> FAdd(FMul(FSub(value, Lit32), Lit1_8), Lit273_15)

\* TemperatureUnit::to_kelvin
to_kelvin(u, value) ==
    CASE u = "Kelvin"     -> value
      [] u = "Celsius"    -> FAdd(value, Lit273_15)
      [] u = "Fahrenheit" -> FAdd(FDiv(FSub(value, Lit32), Lit1_8), Lit273_15)

\* ---- inputs --------------------------------------------------------------
\* the frames the adapter may decode: a grid of per-pixel temperatures
FrameChoices ==
    { <<CelsiusToKelvin(20), CelsiusToKelvin(50)>>,
      <<CelsiusToKelvin(120), CelsiusToKelvin(-10)>> }

\* gradients are named by their index in THERMAL_GRADIENTS
DefaultSettings ==
    [ auto_range   |-> TRUE,
      manual_range |-> TempRange(CelsiusToKelvin(0), CelsiusToKelvin(100)),
      gradient     |-> 0 ]

\* the settings values the owner may pass to set_settings
SettingsChoices ==
    { [ auto_range   |-> FALSE,
        manual_range |-> TempRange(CelsiusToKelvin(0), CelsiusToKelvin(10)),
        gradient     |-> 1 ],
      [ auto_range   |-> TRUE,
        manual_range |-> TempRange(CelsiusToKelvin(40), CelsiusToKelvin(130)),
        gradient     |-> 2 ] }

\* ---- per-frame computation ----------------------------------------------
\* ThermalData::get_min_max_pos: positions of the coldest and hottest pixel
MinPos(data) ==
    CHOOSE i \in DOMAIN data :
        \A j \in DOMAIN data : data[i] < data[j] \/ (data[i] = data[j] /\ i <= j)
MaxPos(data) ==
    CHOOSE i \in DOMAIN data :
        \A j \in DOMAIN data : data[i] > data[j] \/ (data[i] = data[j] /\ i <= j)

\* captured_range: the range between the pixels at the two positions
CapturedRange(data) == TempRange(data[MinPos(data)], data[MaxPos(data)])

\* AutoDisplayRangeController: its state is the last range it returned
\* (NoRange before the first frame); compute moves each end halfway to
\* the captured end.
NoRange == [low |-> 0, high |-> -1]
ControllerCompute(state, captured) ==
    IF state = NoRange
    THEN captured
    ELSE TempRange(state.low + (captured.low - state.low) \div 2,
                   state.high + (captured.high - state.high) \div 2)

\* the manual override of the controller's range
MappingRange_NoOverride(s, auto_out) == auto_out
MappingRange(s, auto_out) ==
    IF ~s.auto_range THEN s.manual_range ELSE auto_out

\* the range the histogram is built over
HistogramRange_DisplayOnly(captured, mapping) == mapping
HistogramRange(captured, mapping) == Join(captured, mapping)

\* ThermalDataHistogram::from_thermal_data: pixels binned into n equal
\* buckets over range; a pixel outside range is in no bucket
BucketOf(t, range, n) ==
    IF range.high = range.low
    THEN 0
    ELSE Min2(n - 1, ((t - range.low) * n) \div (range.high - range.low))
FromThermalData(data, range, n) ==
    [ range   |-> range,
      buckets |-> [ b \in 0 .. (n - 1) |->
                      Cardinality({ i \in DOMAIN data :
                                      /\ InRange(range, data[i])
                                      /\ BucketOf(data[i], range, n) = b }) ] ]

\* ThermalData::map_to_image with the closure of the capture loop
MapToImage(data, gradient, mapping) == [gradient |-> gradient, range |-> mapping]

\* the boxed ThermalCapturerResult of one iteration; frame, settings,
\* captured_range, auto_out and requested are history
BuildResult(data, s, auto_out, req) ==
    LET captured == CapturedRange(data)
        mapping  == MappingRange(s, auto_out)
    IN  [ image          |-> MapToImage(data, s.gradient, mapping),
          image_range    |-> mapping,
          histogram      |-> FromThermalData(data,
                                 HistogramRange(captured, mapping), HistBuckets),
          frame          |-> data,
          settings       |-> s,
          captured_range |-> captured,
          auto_out       |-> auto_out,
          requested      |-> req ]

NoResult == [frame |-> <<>>]

\* ---- commands -------------------------------------------------------------
CmdSetSettings(s) == [type |-> "SetSettings", settings |-> s]
CmdStop == [type |-> "Stop"]

\* ---- state ----------------------------------------------------------------
VARIABLES
    owner,          \* "running" | "panicked": the thread that owns the capturer
    capturer,       \* "alive" | "dropping" (Drop::drop ran) | "dropped"
    ctx,            \* "Some" | "None": ThermalCapturer.ctx
    camera_access,  \* the sides that hold the camera handle
    stream,         \* "closed" | "open": the camera stream
    workers,        \* threads spawned by start()
    start_calls,    \* history: calls of start()
    set_calls,      \* history: calls of set_settings()
    pc,             \* the worker's place in the closure
    exit,           \* how the worker ended
    settings,       \* ctx.settings
    auto_range_controller, \* ctx.auto_range_controller
    cmd_channel,    \* commands sent and not yet received
    result_channel, \* results sent and not yet received
    received,       \* history: results taken from result_receiver
    frames,         \* history: frames captured, in order
    result,         \* the worker's result between its construction and its send
    callbacks,      \* history: invocations of the callback
    last_requested, \* history: argument of the latest set_settings call
    begin_requested, \* history: last_requested when the iteration began
    sent_at_stop,   \* history: results sent when Stop was enqueued, -1 before
    compute_calls,  \* history: calls of auto_range_controller.compute
    consumed,       \* history: commands the worker took from cmd_receiver
    calls_before_start, \* history: set_calls when start() took the context
    probe           \* the pure function under evaluation, its inputs and results

vars == << owner, capturer, ctx, camera_access, stream, workers, start_calls,
           set_calls, pc, exit, settings, auto_range_controller, cmd_channel,
           result_channel, received, frames, result, callbacks,
           last_requested, begin_requested, sent_at_stop, compute_calls,
           consumed, calls_before_start, probe >>

\* all but probe
capture_vars ==
    << owner, capturer, ctx, camera_access, stream, workers, start_calls,
       set_calls, pc, exit, settings, auto_range_controller, cmd_channel,
       result_channel, received, frames, result, callbacks,
       last_requested, begin_requested, sent_at_stop, compute_calls,
       consumed, calls_before_start >>

\* history: every result sent so far, in send order
Sent == received \o result_channel

\* the receiving end of the command channel lives in ctx: in the capturer
\* until start(), in the worker's closure until the thread ends
CmdReceiverAlive ==
    \/ ctx = "Some" /\ capturer # "dropped"
    \/ workers > 0 /\ pc # "done"

\* result_receiver is a field of the capturer
ResultReceiverAlive == capturer # "dropped"

\* ---- ThermalCapturer::new -------------------------------------------------
NewCapturer ==
    /\ owner = "running"
    /\ capturer = "alive"
    /\ ctx = "Some"
    /\ camera_access = {"owner"}
    /\ stream = "closed"
    /\ workers = 0
    /\ start_calls = 0
    /\ set_calls = 0
    /\ pc = "idle"
    /\ exit = "none"
    /\ settings = DefaultSettings
    /\ auto_range_controller = NoRange
    /\ cmd_channel = <<>>
    /\ result_channel = <<>>
    /\ received = <<>>
    /\ frames = <<>>
    /\ result = NoResult
    /\ callbacks = 0
    /\ last_requested = DefaultSettings
    /\ begin_requested = DefaultSettings
    /\ sent_at_stop = -1
    /\ compute_calls = 0
    /\ consumed = 0
    /\ calls_before_start = 0

\* no pure function is under evaluation while the capturer runs
NoProbe == [stage |-> "none"]

Init == NewCapturer /\ probe = NoProbe

\* ---- the owner --------------------------------------------------------------
\* start() with the context taken unconditionally
Start_NoTake ==
    /\ owner = "running"
    /\ capturer = "alive"
    /\ start_calls' = start_calls + 1
    /\ ctx' = "None"
    /\ camera_access' = camera_access \cup {"worker"}
    /\ workers' = workers + 1
    /\ pc' = "open"
    /\ UNCHANGED << owner, capturer, stream, set_calls, exit, settings,
                    auto_range_controller, cmd_channel, result_channel,
                    received, frames, result, callbacks, last_requested,
                    sent_at_stop, begin_requested,
                    compute_calls, consumed, calls_before_start,
                    probe >>

\* start(): mem::replace(&mut self.ctx, None).unwrap(), then thread::spawn
Start ==
    /\ owner = "running"
    /\ capturer = "alive"
    /\ start_calls' = start_calls + 1
    /\ IF ctx = "Some"
       THEN /\ ctx' = "None"
            /\ camera_access' = {"worker"}
            /\ workers' = workers + 1
            /\ pc' = "open"
            /\ calls_before_start' = set_calls
            /\ UNCHANGED owner
       ELSE /\ owner' = "panicked"
            /\ UNCHANGED << ctx, camera_access, workers, pc,
                            calls_before_start >>
    /\ UNCHANGED << capturer, stream, set_calls, exit, settings,
                    auto_range_controller, cmd_channel, result_channel,
                    received, frames, result, callbacks, last_requested,
                    sent_at_stop, begin_requested,
                    compute_calls, consumed,
                    probe >>

\* set_settings(s) with the result of send ignored
SetSettings_IgnoreError(s) ==
    /\ owner = "running"
    /\ capturer = "alive"
    /\ set_calls < MaxCmds
    /\ set_calls' = set_calls + 1
    /\ last_requested' = s
    /\ cmd_channel' = IF CmdReceiverAlive
                      THEN Append(cmd_channel, CmdSetSettings(s))
                      ELSE cmd_channel
    /\ UNCHANGED << owner, capturer, ctx, camera_access, stream, workers,
                    start_calls, pc, exit, settings, auto_range_controller,
                    result_channel, received, frames, result, callbacks,
                    sent_at_stop, begin_requested, compute_calls, consumed,
                    calls_before_start, probe >>

\* set_settings(s): cmd_sender.send(SetSettings(s)).unwrap()
SetSettings(s) ==
    /\ owner = "running"
    /\ capturer = "alive"
    /\ set_calls < MaxCmds
    /\ set_calls' = set_calls + 1
    /\ last_requested' = s
    /\ IF CmdReceiverAlive
       THEN /\ cmd_channel' = Append(cmd_channel, CmdSetSettings(s))
            /\ UNCHANGED owner
       ELSE /\ owner' = "panicked"
            /\ UNCHANGED cmd_channel
    /\ UNCHANGED << capturer, ctx, camera_access, stream, workers, start_calls,
                    pc, exit, settings, auto_range_controller, result_channel,
                    received, frames, result, callbacks, sent_at_stop, begin_requested,
                    compute_calls, consumed, calls_before_start,
                    probe >>

\* the consumer takes one result from the public result_receiver
RecvResult ==
    /\ owner = "running"
    /\ capturer = "alive"
    /\ result_channel # <<>>
    /\ received' = Append(received, Head(result_channel))
    /\ result_channel' = Tail(result_channel)
    /\ UNCHANGED << owner, capturer, ctx, camera_access, stream, workers,
                    start_calls, set_calls, pc, exit, settings,
                    auto_range_controller, cmd_channel, frames, result,
                    callbacks, last_requested, sent_at_stop, begin_requested,
                    compute_calls, consumed, calls_before_start,
                    probe >>

\* Drop::drop: cmd_sender.send(Stop).unwrap(); it also runs when the owner
\* unwinds from a panic
DropSendStop ==
    /\ capturer = "alive"
    /\ capturer' = "dropping"
    /\ IF CmdReceiverAlive
       THEN /\ cmd_channel' = Append(cmd_channel, CmdStop)
            /\ sent_at_stop' = Len(Sent)
            /\ UNCHANGED owner
       ELSE /\ owner' = "panicked"
            /\ UNCHANGED << cmd_channel, sent_at_stop >>
    /\ UNCHANGED << ctx, camera_access, stream, workers, start_calls,
                    set_calls, pc, exit, settings, auto_range_controller,
                    result_channel, received, frames, result, callbacks,
                    last_requested, begin_requested,
                    compute_calls, consumed, calls_before_start,
                    probe >>

\* after Drop::drop the fields are dropped: ctx (with the camera, when start
\* was never called), cmd_sender, result_receiver
DropFields ==
    /\ capturer = "dropping"
    /\ capturer' = "dropped"
    /\ camera_access' = IF ctx = "Some" THEN {} ELSE camera_access
    /\ UNCHANGED << owner, ctx, stream, workers, start_calls, set_calls, pc,
                    exit, settings, auto_range_controller, cmd_channel,
                    result_channel, received, frames, result, callbacks,
                    last_requested, sent_at_stop, begin_requested,
                    compute_calls, consumed, calls_before_start,
                    probe >>

\* ---- the worker ---------------------------------------------------------------
\* the thread ends (break or panic): the closure's ctx is dropped
WorkerEnds(how) ==
    /\ pc' = "done"
    /\ exit' = how
    /\ camera_access' = camera_access \ {"worker"}

\* a loop that checks for a command before its first capture
OpenStream_DrainFirst ==
    /\ pc = "open"
    /\ \/ /\ stream' = "open"
          /\ pc' = "drain"
          /\ begin_requested' = last_requested
          /\ UNCHANGED << exit, camera_access >>
       \/ /\ WorkerEnds("open_error")
          /\ UNCHANGED << stream, begin_requested >>
    /\ UNCHANGED << owner, capturer, ctx, workers, start_calls, set_calls,
                    settings, auto_range_controller, cmd_channel,
                    result_channel, received, frames, result, callbacks,
                    last_requested, sent_at_stop, compute_calls, consumed,
                    calls_before_start, probe >>

\* ctx.camera.open_stream().unwrap()
OpenStream ==
    /\ pc = "open"
    /\ \/ /\ stream' = "open"
          /\ pc' = "capture"
          /\ begin_requested' = last_requested
          /\ UNCHANGED << exit, camera_access >>
       \/ /\ WorkerEnds("open_error")
          /\ UNCHANGED << stream, begin_requested >>
    /\ UNCHANGED << owner, capturer, ctx, workers, start_calls, set_calls,
                    settings, auto_range_controller, cmd_channel,
                    result_channel, received, frames, result, callbacks,
                    last_requested, sent_at_stop,
                    compute_calls, consumed, calls_before_start,
                    probe >>

\* an iteration that calls the controller in auto mode only
Capture_AutoOnly(data) ==
    /\ pc = "capture"
    /\ Len(frames) < MaxFrames
    /\ LET auto_out == IF settings.auto_range
                       THEN ControllerCompute(auto_range_controller,
                                              CapturedRange(data))
                       ELSE auto_range_controller
       IN  /\ auto_range_controller' = auto_out
           /\ result' = BuildResult(data, settings, auto_out, begin_requested)
    /\ compute_calls' = IF settings.auto_range
                        THEN compute_calls + 1
                        ELSE compute_calls
    /\ frames' = Append(frames, data)
    /\ pc' = "send"
    /\ UNCHANGED << owner, capturer, ctx, camera_access, stream, workers,
                    start_calls, set_calls, exit, settings, cmd_channel,
                    result_channel, received, callbacks, last_requested,
                    sent_at_stop, begin_requested, consumed,
                    calls_before_start, probe >>

\* an iteration that displays the range the controller returned a frame ago
Capture_StaleRange(data) ==
    /\ pc = "capture"
    /\ Len(frames) < MaxFrames
    /\ LET auto_out == ControllerCompute(auto_range_controller, CapturedRange(data))
       IN  /\ auto_range_controller' = auto_out
           /\ result' = BuildResult(data, settings,
                                    IF auto_range_controller = NoRange
                                    THEN auto_out
                                    ELSE auto_range_controller,
                                    begin_requested)
    /\ compute_calls' = compute_calls + 1
    /\ frames' = Append(frames, data)
    /\ pc' = "send"
    /\ UNCHANGED << owner, capturer, ctx, camera_access, stream, workers,
                    start_calls, set_calls, exit, settings, cmd_channel,
                    result_channel, received, callbacks, last_requested,
                    sent_at_stop, begin_requested, consumed,
                    calls_before_start, probe >>

\* one frame captured and its result built
Capture(data) ==
    /\ pc = "capture"
    /\ Len(frames) < MaxFrames
    /\ LET auto_out == ControllerCompute(auto_range_controller, CapturedRange(data))
       IN  /\ auto_range_controller' = auto_out
           /\ result' = BuildResult(data, settings, auto_out, begin_requested)
    /\ compute_calls' = compute_calls + 1
    /\ frames' = Append(frames, data)
    /\ pc' = "send"
    /\ UNCHANGED << owner, capturer, ctx, camera_access, stream, workers,
                    start_calls, set_calls, exit, settings, cmd_channel,
                    result_channel, received, callbacks, last_requested,
                    sent_at_stop, begin_requested,
                    consumed, calls_before_start,
                    probe >>

\* a failed capture that is followed by the rest of the iteration
CaptureError_Continue ==
    /\ pc = "capture"
    /\ exit' = "capture_error"
    /\ pc' = "callback"
    /\ UNCHANGED << owner, capturer, ctx, camera_access, stream, workers,
                    start_calls, set_calls, settings, auto_range_controller,
                    cmd_channel, result_channel, received, frames, result,
                    callbacks, last_requested, sent_at_stop, begin_requested,
                    compute_calls, consumed, calls_before_start,
                    probe >>

\* capture_thermal_data(..) returns Err: unwrap panics
CaptureError ==
    /\ pc = "capture"
    /\ WorkerEnds("capture_error")
    /\ UNCHANGED << owner, capturer, ctx, stream, workers, start_calls,
                    set_calls, settings, auto_range_controller, cmd_channel,
                    result_channel, received, frames, result, callbacks,
                    last_requested, sent_at_stop, begin_requested,
                    compute_calls, consumed, calls_before_start,
                    probe >>

\* ctx.result_sender.send(result).unwrap(): Err once the receiver is dropped
SendResult ==
    /\ pc = "send"
    /\ IF ResultReceiverAlive
       THEN /\ result_channel' = Append(result_channel, result)
            /\ result' = NoResult
            /\ pc' = "callback"
            /\ UNCHANGED << exit, camera_access >>
       ELSE /\ WorkerEnds("send_error")
            /\ UNCHANGED << result_channel, result >>
    /\ UNCHANGED << owner, capturer, ctx, stream, workers, start_calls,
                    set_calls, settings, auto_range_controller, cmd_channel,
                    received, frames, callbacks, last_requested, sent_at_stop, begin_requested,
                    compute_calls, consumed, calls_before_start,
                    probe >>

\* a callback invoked twice for one result
Callback_Twice ==
    /\ pc = "callback"
    /\ callbacks' = callbacks + 2
    /\ pc' = "drain"
    /\ UNCHANGED << owner, capturer, ctx, camera_access, stream, workers,
                    start_calls, set_calls, exit, settings,
                    auto_range_controller, cmd_channel, result_channel,
                    received, frames, result, last_requested, sent_at_stop,
                    begin_requested, compute_calls, consumed,
                    calls_before_start, probe >>

\* (ctx.callback)()
Callback ==
    /\ pc = "callback"
    /\ callbacks' = callbacks + 1
    /\ pc' = "drain"
    /\ UNCHANGED << owner, capturer, ctx, camera_access, stream, workers,
                    start_calls, set_calls, exit, settings,
                    auto_range_controller, cmd_channel, result_channel,
                    received, frames, result, last_requested, sent_at_stop, begin_requested,
                    compute_calls, consumed, calls_before_start,
                    probe >>

\* try_recv() returns Err (empty or disconnected): nothing happens
TryRecvEmpty ==
    /\ pc = "drain"
    /\ cmd_channel = <<>>
    /\ pc' = "capture"
    /\ begin_requested' = last_requested
    /\ UNCHANGED << owner, capturer, ctx, camera_access, stream, workers,
                    start_calls, set_calls, exit, settings,
                    auto_range_controller, cmd_channel, result_channel,
                    received, frames, result, callbacks, last_requested,
                    sent_at_stop,
                    compute_calls, consumed, calls_before_start,
                    probe >>

\* a drain that also takes the SetSettings queued behind the first
TryRecvSetSettings_TakeTwo ==
    /\ pc = "drain"
    /\ cmd_channel # <<>>
    /\ Head(cmd_channel).type = "SetSettings"
    /\ LET n == IF Len(cmd_channel) >= 2 /\ cmd_channel[2].type = "SetSettings"
                THEN 2
                ELSE 1
       IN  /\ settings' = cmd_channel[n].settings
           /\ cmd_channel' = SubSeq(cmd_channel, n + 1, Len(cmd_channel))
           /\ consumed' = consumed + n
    /\ pc' = "capture"
    /\ begin_requested' = last_requested
    /\ UNCHANGED << owner, capturer, ctx, camera_access, stream, workers,
                    start_calls, set_calls, exit, auto_range_controller,
                    result_channel, received, frames, result, callbacks,
                    last_requested, sent_at_stop, compute_calls,
                    calls_before_start, probe >>

\* a drain that keeps the gradient in force and takes the rest
TryRecvSetSettings_Merge ==
    /\ pc = "drain"
    /\ cmd_channel # <<>>
    /\ Head(cmd_channel).type = "SetSettings"
    /\ settings' = [Head(cmd_channel).settings EXCEPT !.gradient = settings.gradient]
    /\ cmd_channel' = Tail(cmd_channel)
    /\ consumed' = consumed + 1
    /\ pc' = "capture"
    /\ begin_requested' = last_requested
    /\ UNCHANGED << owner, capturer, ctx, camera_access, stream, workers,
                    start_calls, set_calls, exit, auto_range_controller,
                    result_channel, received, frames, result, callbacks,
                    last_requested, sent_at_stop, compute_calls,
                    calls_before_start, probe >>

\* try_recv() returns SetSettings(range_settings)
TryRecvSetSettings ==
    /\ pc = "drain"
    /\ cmd_channel # <<>>
    /\ Head(cmd_channel).type = "SetSettings"
    /\ settings' = Head(cmd_channel).settings
    /\ cmd_channel' = Tail(cmd_channel)
    /\ consumed' = consumed + 1
    /\ pc' = "capture"
    /\ begin_requested' = last_requested
    /\ UNCHANGED << owner, capturer, ctx, camera_access, stream, workers,
                    start_calls, set_calls, exit, auto_range_controller,
                    result_channel, received, frames, result, callbacks,
                    last_requested, sent_at_stop,
                    compute_calls, calls_before_start,
                    probe >>

\* try_recv() returns Stop: ctx.camera.stop_stream().unwrap(); break
TryRecvStop ==
    /\ pc = "drain"
    /\ cmd_channel # <<>>
    /\ Head(cmd_channel).type = "Stop"
    /\ cmd_channel' = Tail(cmd_channel)
    /\ consumed' = consumed + 1
    /\ \/ /\ stream' = "closed"
          /\ WorkerEnds("stop")
       \/ /\ WorkerEnds("stop_error")
          /\ UNCHANGED stream
    /\ UNCHANGED << owner, capturer, ctx, workers, start_calls, set_calls,
                    settings, auto_range_controller, result_channel, received,
                    frames, result, callbacks, last_requested, sent_at_stop, begin_requested,
                    compute_calls, calls_before_start,
                    probe >>

\* ---- the system ---------------------------------------------------------------
OwnerNext ==
    \/ Start
    \/ \E s \in SettingsChoices : SetSettings(s)
    \/ RecvResult
    \/ DropSendStop
    \/ DropFields

WorkerNext ==
    \/ OpenStream
    \/ \E data \in FrameChoices : Capture(data)
    \/ CaptureError
    \/ SendResult
    \/ Callback
    \/ TryRecvEmpty
    \/ TryRecvSetSettings
    \/ TryRecvStop

Next == OwnerNext \/ WorkerNext

Spec == Init /\ [][Next]_vars

\* ---- the unit conversions, evaluated on their own -----------------------------
\* x <= y for f32 values that are not negative
FLessEq(x, y) ==
    \/ x.m = 0
    \/ y.m # 0 /\ (x.e < y.e \/ (x.e = y.e /\ x.m <= y.m))

\* the kelvin values converted: zero, and MantSamples significands spread
\* over every binade from [0.5, 1) up to [2^(MaxBinade-1), 2^MaxBinade)
KelvinInputs ==
    {FZero} \cup
    { F32(0, Pow2(MantBits - 1) + ((j * 5184373) % Pow2(MantBits - 1)),
          b - MantBits) :
        j \in 0 .. (MantSamples - 1), b \in 0 .. MaxBinade }

UnitInit ==
    /\ NewCapturer
    /\ probe \in { [stage |-> "input", u |-> u, k |-> k, v |-> k] :
                     u \in Units, k \in KelvinInputs }

\* v = u.from_kelvin(k)
ApplyFromKelvin ==
    /\ probe.stage = "input"
    /\ probe' = [probe EXCEPT !.stage = "converted",
                              !.v = from_kelvin(probe.u, probe.k)]
    /\ UNCHANGED capture_vars

\* v = u.to_kelvin(v)
ApplyToKelvin ==
    /\ probe.stage = "converted"
    /\ probe' = [probe EXCEPT !.stage = "back",
                              !.v = to_kelvin(probe.u, probe.v)]
    /\ UNCHANGED capture_vars

UnitNext == ApplyFromKelvin \/ ApplyToKelvin

UnitSpec == UnitInit /\ [][UnitNext]_vars

\* ---- TempRange::join, evaluated on its own --------------------------------------
\* the well-formed ranges joined
RangeInputs ==
    { TempRange(CelsiusToKelvin(10 * l), CelsiusToKelvin(10 * h)) :
        <<l, h>> \in { p \in (0 .. MaxStep) \X (0 .. MaxStep) : p[1] <= p[2] } }

JoinInit ==
    /\ NewCapturer
    /\ probe \in { [stage |-> "ranges", a |-> a, b |-> b, c |-> c] :
                     a \in RangeInputs, b \in RangeInputs, c \in RangeInputs }

\* a.join(b), b.join(a), a.join(a), a.join(b).join(c), a.join(b.join(c))
ApplyJoin ==
    /\ probe.stage = "ranges"
    /\ probe' = [ stage |-> "joined",
                  a     |-> probe.a,
                  b     |-> probe.b,
                  c     |-> probe.c,
                  ab    |-> Join(probe.a, probe.b),
                  ba    |-> Join(probe.b, probe.a),
                  aa    |-> Join(probe.a, probe.a),
                  ab_c  |-> Join(Join(probe.a, probe.b), probe.c),
                  a_bc  |-> Join(probe.a, Join(probe.b, probe.c)) ]
    /\ UNCHANGED capture_vars

JoinNext == ApplyJoin

JoinSpec == JoinInit /\ [][JoinNext]_vars

\* ---- properties -----------------------------------------------------------------
\* how a worker ends when the camera fails it
CameraErrors == {"open_error", "capture_error", "stop_error"}

\* every result built so far, in order: those sent and the one about to be
Built == Sent \o (IF result = NoResult THEN <<>> ELSE <<result>>)

\* the controller's state after it was given the captured ranges of fs, in order
RECURSIVE ReplayController(_)
ReplayController(fs) ==
    IF fs = <<>>
    THEN NoRange
    ELSE ControllerCompute(ReplayController(SubSeq(fs, 1, Len(fs) - 1)),
                           CapturedRange(fs[Len(fs)]))

RECURSIVE SumOver(_, _)
SumOver(f, S) ==
    IF S = {} THEN 0
    ELSE LET b == CHOOSE x \in S : TRUE IN f[b] + SumOver(f, S \ {b})
\* the total of a histogram's bucket counts (empty buckets add nothing)
TotalCount(h) ==
    SumOver(h.buckets, { b \in DOMAIN h.buckets : h.buckets[b] # 0 })

\* C1: every result sent by an iteration whose settings have auto_range =
\* FALSE has image_range equal to those settings' manual_range, whatever the
\* frame's captured range and the controller's output were.
C1_ManualModeGuarantee ==
    \A i \in DOMAIN Sent :
        ~Sent[i].settings.auto_range
            => Sent[i].image_range = Sent[i].settings.manual_range

\* a manual-mode result was sent whose manual range differs from the
\* controller's output and does not cover the captured range
C1_Witness ==
    \E i \in DOMAIN Sent :
        /\ ~Sent[i].settings.auto_range
        /\ Sent[i].auto_out # Sent[i].settings.manual_range
        /\ ~Covers(Sent[i].settings.manual_range, Sent[i].captured_range)
        /\ Sent[i].image_range = Sent[i].settings.manual_range

\* C2: every result reflects the settings of the latest set_settings call
\* made before its iteration began (before the command check that precedes
\* the iteration, or before the stream was opened for the first iteration).
C2_NextResultReflectsSettings ==
    \A i \in DOMAIN Sent : Sent[i].settings = Sent[i].requested

\* C3: a command check that finds several SetSettings queued leaves the
\* worker with the most recent of them and none of the others queued.
C3_LastWriteWins ==
    [][ ( /\ pc = "drain"
          /\ pc' # "drain"
          /\ Len(cmd_channel) >= 2
          /\ \A i \in DOMAIN cmd_channel : cmd_channel[i].type = "SetSettings" )
        => ( /\ settings' = cmd_channel[Len(cmd_channel)].settings
             /\ cmd_channel' = <<>> ) ]_vars

\* C4: once Stop is enqueued, at most one more result is sent.
C4_ShutdownBound ==
    sent_at_stop >= 0 => Len(Sent) <= sent_at_stop + 1

\* C5: a worker that has ended after the teardown enqueued Stop, with no
\* camera error, ended by observing Stop and closing the stream.
C5_CleanStopOnTeardown ==
    (pc = "done" /\ sent_at_stop >= 0 /\ exit \notin CameraErrors)
        => (exit = "stop" /\ stream = "closed")

\* C6: the step in which capture_thermal_data fails ends the worker, sends no
\* result, invokes no callback and takes no command; after it no result is
\* sent, no callback invoked and no command taken.
C6_FatalCapture ==
    [][ /\ (exit # "capture_error" /\ exit' = "capture_error")
            => /\ pc' = "done"
               /\ UNCHANGED << result_channel, received, result, callbacks,
                               cmd_channel, settings, frames >>
        /\ exit = "capture_error"
            => /\ pc' = "done"
               /\ exit' = "capture_error"
               /\ Sent' = Sent
               /\ UNCHANGED << callbacks, cmd_channel, settings, frames >> ]_vars

\* the capture of a later iteration failed with a command still queued
C6_Witness ==
    /\ pc = "done"
    /\ exit = "capture_error"
    /\ Len(frames) >= 1
    /\ Len(Sent) = Len(frames)
    /\ callbacks = Len(frames)
    /\ cmd_channel # <<>>

\* C7: at most one worker exists, at most one side holds the camera (the
\* owner before start, the worker while it runs), and a second start()
\* panics without spawning a worker.
C7_SingleWorkerExclusiveCamera ==
    /\ workers <= 1
    /\ Cardinality(camera_access) <= 1
    /\ ctx = "Some" => workers = 0 /\ start_calls = 0
    /\ (ctx = "Some" /\ capturer # "dropped") => camera_access = {"owner"}
    /\ ctx = "None" => workers = 1 /\ "owner" \notin camera_access
    /\ pc \notin {"idle", "done"} => camera_access = {"worker"}
    /\ start_calls <= 2
    /\ start_calls = 2 => owner = "panicked"

\* start() was called a second time while the worker was running
C7_Witness ==
    /\ start_calls = 2
    /\ owner = "panicked"
    /\ workers = 1
    /\ pc \notin {"idle", "done"}
    /\ camera_access = {"worker"}

\* C8: every captured frame has yielded exactly one result once its
\* iteration is past the send, and the results sent (hence those received,
\* a prefix of them) are the results of the frames captured, in order.
C8_ResultStream ==
    /\ Len(Sent) <= Len(frames)
    /\ \A i \in DOMAIN Sent : Sent[i].frame = frames[i]
    /\ pc \in {"capture", "callback", "drain", "done"} => Len(Sent) = Len(frames)

\* C9: every result's histogram is built over join(captured_range,
\* image_range); that range contains the display range and every pixel of
\* the frame, and the bucket counts sum to the pixel count.
C9_HistogramCoverage ==
    \A i \in DOMAIN Sent :
        LET r == Sent[i]
        IN  /\ r.histogram.range = Join(r.captured_range, r.image_range)
            /\ Covers(r.histogram.range, r.image_range)
            /\ \A p \in DOMAIN r.frame : InRange(r.histogram.range, r.frame[p])
            /\ TotalCount(r.histogram) = Len(r.frame)

\* a manual-mode result whose manual range is disjoint from the captured
\* range, and an auto-mode result, were both sent
C9_Witness ==
    /\ \E i \in DOMAIN Sent :
        /\ ~Sent[i].settings.auto_range
        /\ Sent[i].image_range.high < Sent[i].captured_range.low
        /\ TotalCount(Sent[i].histogram) = Len(Sent[i].frame)
    /\ \E i \in DOMAIN Sent : Sent[i].settings.auto_range

\* C10: the send, the callback and the command check are enabled whatever
\* the owner has done, and a worker whose camera never failed has ended only
\* by observing Stop.
C10_WorkerNeverBlocks ==
    /\ pc \in {"send", "callback", "drain"} => ENABLED WorkerNext
    /\ (pc = "done" /\ exit \notin CameraErrors) => exit = "stop"

\* C11 as stated: for every unit and every kelvin value k, the round trip
\* to_kelvin(u, from_kelvin(u, k)) is within 1e-4 of k.
C11_RoundTrip ==
    probe.stage = "back" => WithinTolerance(probe.v, probe.k)

\* C11, amended: the round trip is within 1e-4 of k for Kelvin and Celsius
\* at every k >= 0, and for Fahrenheit at every k with 0 <= k <= 824 K.
C11_RoundTripBounded ==
    probe.stage = "back"
        => \/ WithinTolerance(probe.v, probe.k)
           \/ probe.u = "Fahrenheit" /\ ~FLessEq(probe.k, FromInt(824))

\* a Fahrenheit round trip of a k between 256 K and 824 K that does not
\* return k itself and is within the tolerance
C11_Witness ==
    /\ probe.stage = "back"
    /\ probe.u = "Fahrenheit"
    /\ FLessEq(FromInt(256), probe.k)
    /\ FLessEq(probe.k, FromInt(824))
    /\ probe.v # probe.k
    /\ WithinTolerance(probe.v, probe.k)

\* C12: join(a, b) has the lower of the low ends and the higher of the high
\* ends, it contains a and b and lies within every range that contains both,
\* and join is commutative, associative and idempotent.
C12_RangeJoin ==
    probe.stage = "joined"
        => /\ probe.ab.low \in {probe.a.low, probe.b.low}
           /\ probe.ab.low <= probe.a.low /\ probe.ab.low <= probe.b.low
           /\ probe.ab.high \in {probe.a.high, probe.b.high}
           /\ probe.ab.high >= probe.a.high /\ probe.ab.high >= probe.b.high
           /\ Covers(probe.ab, probe.a) /\ Covers(probe.ab, probe.b)
           /\ \A r \in RangeInputs :
                (Covers(r, probe.a) /\ Covers(r, probe.b)) => Covers(r, probe.ab)
           /\ probe.ab = probe.ba
           /\ probe.ab_c = probe.a_bc
           /\ probe.aa = probe.a

\* three different ranges were joined, b starting below a and disjoint from
\* it, c reaching above both
C12_Witness ==
    /\ probe.stage = "joined"
    /\ probe.b.high < probe.a.low
    /\ probe.c.high > probe.a.high
    /\ probe.c.low > probe.b.low
    /\ probe.ab = TempRange(probe.b.low, probe.a.high)
    /\ probe.ab_c = TempRange(probe.b.low, probe.c.high)

\* C13: the controller has computed once for every frame captured, whatever
\* the mode, and its state is the one the captured ranges alone determine:
\* it is a function of the frames, so no history of settings can change it.
C13_ControllerPerFrame ==
    /\ compute_calls = Len(frames)
    /\ auto_range_controller = ReplayController(frames)

\* the second frame was captured in manual mode and moved the controller
C13_Witness ==
    /\ pc = "send"
    /\ Len(frames) = 2
    /\ ~result.settings.auto_range
    /\ compute_calls = 2
    /\ auto_range_controller # ReplayController(SubSeq(frames, 1, 1))
    /\ auto_range_controller # CapturedRange(frames[2])

\* C14: the worker takes a command only at the end of an iteration, after
\* that iteration's result was sent and its callback invoked, one command
\* per iteration and always the oldest one; what is queued behind it stays
\* queued, and no other step removes or reorders commands.
C14_DrainDiscipline ==
    [][ /\ consumed' <= callbacks'
        /\ consumed' # consumed
             => /\ consumed' = consumed + 1
                /\ pc = "drain" /\ pc' # "drain"
                /\ callbacks = Len(frames)
                /\ Len(Sent) = Len(frames)
                /\ result = NoResult
                /\ cmd_channel # <<>>
                /\ cmd_channel' = Tail(cmd_channel)
        /\ consumed' = consumed
             => /\ Len(cmd_channel') >= Len(cmd_channel)
                /\ SubSeq(cmd_channel', 1, Len(cmd_channel)) = cmd_channel
      ]_vars

\* one command was taken and the one sent after it is still queued
C14_Witness ==
    /\ pc = "capture"
    /\ consumed = 1
    /\ callbacks = 1
    /\ set_calls = 2
    /\ Len(cmd_channel) = 1
    /\ cmd_channel[1] = CmdSetSettings(last_requested)
    /\ settings # last_requested
    /\ settings # DefaultSettings

\* C15: the i-th result is built from the i-th frame, and when the settings
\* in force had auto_range set its display range is what the controller
\* returned for the captured range of that frame, after the frames before it.
C15_AutoModeRange ==
    /\ Len(Built) = Len(frames)
    /\ \A i \in 1 .. Len(Built) :
         /\ Built[i].frame = frames[i]
         /\ Built[i].settings.auto_range
              => /\ Built[i].image_range = ReplayController(SubSeq(frames, 1, i))
                 /\ Built[i].image.range = Built[i].image_range

\* the second result was built in auto mode, and its range is neither the
\* first result's, nor the captured one, nor manual_range
C15_Witness ==
    /\ Len(Sent) = 2
    /\ Sent[2].settings.auto_range
    /\ Sent[2].image_range # Sent[1].image_range
    /\ Sent[2].image_range # CapturedRange(frames[2])
    /\ Sent[2].image_range # Sent[2].settings.manual_range
    /\ Sent[2].image_range = auto_range_controller

\* C16: settings change only when the worker drains a SetSettings, between
\* two iterations; that step makes the settings exactly the value carried by
\* the command and changes neither the controller, nor the stream, nor the
\* commands queued behind it, nor any result; and every result's gradient
\* and display range are those of one settings value.
C16_WholesaleReplacement ==
    [][ /\ settings' # settings
             => /\ pc = "drain" /\ pc' = "capture"
                /\ result = NoResult
                /\ cmd_channel # <<>>
                /\ Head(cmd_channel).type = "SetSettings"
        /\ ( /\ consumed' # consumed
             /\ Head(cmd_channel).type = "SetSettings" )
             => /\ settings' = Head(cmd_channel).settings
                /\ cmd_channel' = Tail(cmd_channel)
                /\ auto_range_controller' = auto_range_controller
                /\ compute_calls' = compute_calls
                /\ stream' = stream
                /\ camera_access' = camera_access
                /\ result_channel' = result_channel
                /\ received' = received
                /\ frames' = frames
        /\ \A i \in 1 .. Len(Built') :
             \E s \in {DefaultSettings} \cup SettingsChoices :
                /\ Built'[i].image.gradient = s.gradient
                /\ Built'[i].image.range = Built'[i].image_range
                /\ Built'[i].image_range =
                      IF s.auto_range
                      THEN ReplayController(SubSeq(frames', 1, i))
                      ELSE s.manual_range
      ]_vars

\* a drained SetSettings replaced the defaults, a second one is queued behind
\* it, and the second result shows the gradient and manual range of the first
C16_Witness ==
    /\ consumed = 1
    /\ Len(cmd_channel) = 1
    /\ settings \in SettingsChoices
    /\ ~settings.auto_range
    /\ Len(Sent) = 2
    /\ Sent[1].image.gradient = DefaultSettings.gradient
    /\ Sent[2].image.gradient = settings.gradient
    /\ Sent[2].image_range = settings.manual_range
    /\ auto_range_controller = ReplayController(frames)

\* C17: the callbacks invoked never outnumber the results sent; they fall
\* short by one exactly between a send and its callback; and whenever fewer
\* results were taken than callbacks invoked, the result channel holds one.
C17_NotificationOrdering ==
    /\ callbacks <= Len(Sent)
    /\ pc = "callback" => Len(Sent) = callbacks + 1
    /\ pc # "callback" => Len(Sent) = callbacks
    /\ Len(received) < callbacks => result_channel # <<>>

\* the second result is sent and its callback not yet invoked; the owner took
\* the first after its callback
C17_Witness ==
    /\ pc = "callback"
    /\ callbacks = 1
    /\ Len(Sent) = 2
    /\ Len(received) = 1
    /\ Len(result_channel) = 1

\* C18: a set_settings call or a teardown made after the worker thread has
\* ended panics and enqueues nothing; one made while the worker has not
\* ended, or before start(), appends its command and does not panic.
C18_BrokenCommandChannel ==
    [][ LET set_call == set_calls' # set_calls
            teardown == capturer = "alive" /\ capturer' = "dropping"
            cmd      == IF set_call
                        THEN CmdSetSettings(last_requested')
                        ELSE CmdStop
        IN  (set_call \/ teardown)
              => IF workers > 0 /\ pc = "done"
                 THEN /\ owner' = "panicked"
                      /\ cmd_channel' = cmd_channel
                 ELSE /\ owner' = owner
                      /\ cmd_channel' = Append(cmd_channel, cmd)
      ]_vars

\* set_settings was called after a camera error ended the worker: the owner
\* panicked (start() was called once, so not there) and nothing was enqueued
C18_Witness ==
    /\ owner = "panicked"
    /\ capturer = "alive"
    /\ start_calls = 1
    /\ pc = "done"
    /\ exit = "capture_error"
    /\ set_calls = 1
    /\ consumed = 0
    /\ cmd_channel = <<>>

\* C19: the first result built has the default gradient and, the default
\* being auto mode, the range the controller returns for the first frame;
\* and a worker that has taken any command, Stop included, had sent a result
\* and invoked its callback before.
C19_FirstResultDefaults ==
    /\ Len(Built) >= 1
         => /\ Built[1].image.gradient = DefaultSettings.gradient
            /\ DefaultSettings.auto_range
            /\ Built[1].image_range =
                  ControllerCompute(NoRange, CapturedRange(frames[1]))
            /\ Built[1].image.range = Built[1].image_range
    /\ consumed >= 1 => Len(Sent) >= 1 /\ callbacks >= 1
    /\ exit \in {"stop", "stop_error"} => consumed >= 1 /\ Len(Sent) >= 1

\* set_settings was called before start(), the first result shows the
\* defaults all the same, and the worker has since observed Stop
C19_Witness ==
    /\ calls_before_start >= 1
    /\ exit = "stop"
    /\ Len(Sent) >= 1
    /\ Sent[1].requested \in SettingsChoices
    /\ Sent[1].image.gradient = DefaultSettings.gradient
    /\ Sent[1].image_range = CapturedRange(frames[1])

====
